---------------------------- MODULE Spec2Model ----------------------------
(***************************************************************************)
(* Configuration resolution of the trustee binary (src/src/main.rs).       *)
(*                                                                         *)
(* Text is modelled as a sequence of tokens.  A token is either one of the *)
(* characters the code inspects (space, tab, '=', '"', ''', '#') or a word:*)
(* a non-empty run of other characters, kept as one opaque string.  A URL  *)
(* scheme ("http://", "https://") is a word of its own; no other two words *)
(* are adjacent, so equal token sequences are equal strings.               *)
(* The content of a .env file is the sequence of its lines (str::lines).   *)
(* A TOML text is identified by what the parser makes of it: a table, or a *)
(* parse failure; serializing a table gives the text of that table.        *)
(* The files do not change while the process runs.  What the remote store  *)
(* answers is chosen when it is asked.                                     *)
(***************************************************************************)
EXTENDS Naturals, Sequences, FiniteSets, TLC

VARIABLES
    \* ---- the environment of one process run
    is_init,          \* args[1] == "init"
    fs_env,           \* the .env-style files under <home>: path -> file state
    fs_cfg,           \* the config files under <home>/config: path -> file state
    fs_project,       \* the project-relative config/trustee.toml
    \* ---- main() and load_remote_config()
    pc,               \* position in main / load_remote_config
    config_path,      \* main: config_path
    secrets_path,     \* main: secrets_path
    local_secrets,    \* main: local_secrets
    storage_config,   \* load_remote_config: storage_config (Option)
    reader,           \* load_remote_config: the ConfigReader ("none", "ok", "failed")
    object_names,     \* load_remote_config: config_file_name, env_file_name
    config_toml,      \* load_remote_config: config_toml
    remote,           \* the Option load_remote_config returns
    user_config_toml, \* main: user_config_toml
    secrets,          \* main: secrets
    outcome,          \* "running", "exit1" (process::exit(1)), "error" (Err returned), "handoff"
    handed,           \* what run_from_raw_config received
    events,           \* the file and remote accesses made and the diagnostics printed so far
    \* ---- parse_env_content applied to one line
    env_pc, env_line, env_map,
    \* ---- figment's merge applied to two tables
    merge_pc, merge_base, merge_over, merge_out

orch_vars == <<is_init, fs_env, fs_cfg, fs_project, pc, config_path, secrets_path,
               local_secrets, storage_config, reader, object_names, config_toml,
               remote, user_config_toml, secrets, outcome, handed, events>>
env_vars == <<env_pc, env_line, env_map>>
merge_vars == <<merge_pc, merge_base, merge_over, merge_out>>
vars == <<orch_vars, env_vars, merge_vars>>

----------------------------------------------------------------------------
(* Bounds *)

\* longest line handed to parse_env_content in SpecEnv
MaxLineLen == 4
\* number of extra lines after the connection block of the default .env
MaxLocalLines == 1
\* number of lines of the remote secrets object
MaxRemoteLines == 1
\* leaf values 1..MaxLeaf of the tables merged in SpecMerge
MaxLeaf == 2

SeqsUpTo(S, n) == UNION {[1..k -> S] : k \in 0..n}

Min(S) == CHOOSE x \in S : \A y \in S : x <= y
Max(S) == CHOOSE x \in S : \A y \in S : x >= y

----------------------------------------------------------------------------
(* Strings *)

DQ == "\""
SQ == "'"
WhiteSpace == {" ", "\t"}

\* s without its leading and trailing tokens that are in cs
StripSet(s, cs) ==
    LET keep == {i \in 1..Len(s) : s[i] \notin cs}
    IN  IF keep = {} THEN <<>> ELSE SubSeq(s, Min(keep), Max(keep))

\* str::trim
trim(s) == StripSet(s, WhiteSpace)

\* str::trim_matches(c): every leading and every trailing c is removed
trim_matches(s, c) == StripSet(s, {c})

\* str::starts_with(c)
starts_with(s, c) == s # <<>> /\ s[1] = c

\* str::split_once('='): the split at the first '=', or none
split_once(s) ==
    LET eq == {i \in 1..Len(s) : s[i] = "="}
    IN  IF eq = {} THEN [some |-> FALSE, key |-> <<>>, value |-> <<>>]
        ELSE [some |-> TRUE,
              key |-> SubSeq(s, 1, Min(eq) - 1),
              value |-> SubSeq(s, Min(eq) + 1, Len(s))]

----------------------------------------------------------------------------
(* HashMap<String, String> *)

EmptyMap == [k \in {} |-> <<>>]

\* HashMap::insert
insert(m, k, v) == [x \in DOMAIN m \cup {k} |-> IF x = k THEN v ELSE m[x]]

\* HashMap::get(k).filter(|s| !s.is_empty()): present with a non-empty value
get_nonempty(m, k) == k \in DOMAIN m /\ m[k] # <<>>

----------------------------------------------------------------------------
(* parse_env_content *)

\* the body of the loop for one line
parse_env_line(raw, m) ==
    LET line == trim(raw)
    IN  IF line = <<>> \/ starts_with(line, "#") THEN m
        ELSE LET kv == split_once(line)
             IN  IF ~kv.some THEN m
                 ELSE LET key == trim(kv.key)
                          value == trim_matches(trim_matches(trim(kv.value), DQ), SQ)
                      IN  insert(m, key, value)

RECURSIVE parse_env_content(_, _)
parse_env_content(content, m) ==
    IF content = <<>> THEN m
    ELSE parse_env_content(Tail(content), parse_env_line(Head(content), m))

----------------------------------------------------------------------------
(* Paths and files *)

agent_name == "trustee"

\* $HOME (main.rs:63 falls back to "." when it is unset; the rest is the same)
HOME == <<"$HOME">>

\* PathBuf::join of a relative name
join(path, name) == Append(path, name)

share_dir == join(<<HOME>>, <<"." \o agent_name>>)

DefaultEnvName == <<".env">>
DefaultConfigName == <<agent_name \o ".toml">>
AltEnvName == <<"alt.env">>
AltConfigName == <<"alt.toml">>

DefaultEnvPath == join(share_dir, DefaultEnvName)
AltEnvPath == join(share_dir, AltEnvName)
ConfigDir == join(share_dir, <<"config">>)
DefaultConfigPath == join(ConfigDir, DefaultConfigName)
AltConfigPath == join(ConfigDir, AltConfigName)
\* joining the empty name gives "<home>/config/": the directory itself
ConfigDirPath == join(ConfigDir, <<>>)

\* Path::exists
exists(path) ==
    \/ path \in DOMAIN fs_env /\ fs_env[path].exists
    \/ path \in DOMAIN fs_cfg /\ fs_cfg[path].exists

\* std::fs::read_to_string on a .env-style path: Ok(content) or Err
read_env(path) ==
    IF path \in DOMAIN fs_env /\ fs_env[path].exists /\ fs_env[path].readable
    THEN [ok |-> TRUE, content |-> fs_env[path].content]
    ELSE [ok |-> FALSE, content |-> <<>>]

----------------------------------------------------------------------------
(* get_config_paths *)

\* the body of the loop over the lines of the default .env
config_names_line(raw, names) ==
    LET line == trim(raw)
    IN  IF starts_with(line, "#") \/ line = <<>> THEN names
        ELSE LET kv == split_once(line)
             IN  IF ~kv.some THEN names
                 ELSE LET key == trim(kv.key)
                          value == trim_matches(trim_matches(trim(kv.value), DQ), SQ)
                      IN  IF key = <<"TRUSTEE_CONFIG_FILE">>
                          THEN [names EXCEPT !.config_filename = value]
                          ELSE IF key = <<"TRUSTEE_ENV_FILE">>
                          THEN [names EXCEPT !.env_filename = value]
                          ELSE names

RECURSIVE config_names(_, _)
config_names(content, names) ==
    IF content = <<>> THEN names
    ELSE config_names(Tail(content), config_names_line(Head(content), names))

\* (config_path, env_path, config_filename, env_filename)
get_config_paths ==
    LET local_env_path == DefaultEnvPath
        start == [config_filename |-> DefaultConfigName, env_filename |-> <<>>]
        rd == read_env(local_env_path)
        found == IF exists(local_env_path) /\ rd.ok
                 THEN config_names(rd.content, start) ELSE start
        env_filename == IF found.env_filename = <<>> THEN DefaultEnvName
                        ELSE found.env_filename
    IN  [config_path |-> join(join(share_dir, <<"config">>), found.config_filename),
         env_path |-> join(share_dir, env_filename),
         config_filename |-> found.config_filename,
         env_filename |-> env_filename]

----------------------------------------------------------------------------
(* load_env_file *)

\* Result<HashMap, Error>
load_env_file(path) ==
    IF ~exists(path) THEN [ok |-> TRUE, secrets |-> EmptyMap]
    ELSE LET rd == read_env(path)
         IN  IF ~rd.ok THEN [ok |-> FALSE, secrets |-> EmptyMap]
             ELSE [ok |-> TRUE, secrets |-> parse_env_content(rd.content, EmptyMap)]

----------------------------------------------------------------------------
(* build_storage_config *)

ENDPOINT == <<"GETMYCONFIG_ENDPOINT">>
ACCESS_KEY == <<"GETMYCONFIG_ACCESS_KEY">>
SECRET_KEY == <<"GETMYCONFIG_SECRET_KEY">>
BUCKET == <<"GETMYCONFIG_BUCKET">>
ENCRYPTION_KEY == <<"GETMYCONFIG_ENCRYPTION_KEY">>
REGION == <<"GETMYCONFIG_REGION">>
CONFIG_FILE == <<"GETMYCONFIG_CONFIG_FILE">>
ENV_FILE == <<"GETMYCONFIG_ENV_FILE">>

NoStorageConfig ==
    [some |-> FALSE, endpoint |-> <<>>, access_key |-> <<>>, secret_key |-> <<>>,
     bucket |-> <<>>, region |-> <<>>, encryption_key |-> <<>>]

\* Faulty variant: the encryption key is not required.
build_storage_config_no_key(s) ==
    IF ~get_nonempty(s, ENDPOINT) THEN NoStorageConfig
    ELSE IF ~get_nonempty(s, ACCESS_KEY) THEN NoStorageConfig
    ELSE IF ~get_nonempty(s, SECRET_KEY) THEN NoStorageConfig
    ELSE IF ~get_nonempty(s, BUCKET) THEN NoStorageConfig
    ELSE [some |-> TRUE,
          endpoint |-> IF starts_with(s[ENDPOINT], "http://")
                          \/ starts_with(s[ENDPOINT], "https://")
                       THEN s[ENDPOINT] ELSE <<"https://">> \o s[ENDPOINT],
          access_key |-> s[ACCESS_KEY],
          secret_key |-> s[SECRET_KEY],
          bucket |-> s[BUCKET],
          region |-> IF get_nonempty(s, REGION) THEN s[REGION] ELSE <<>>,
          encryption_key |-> IF get_nonempty(s, ENCRYPTION_KEY)
                             THEN s[ENCRYPTION_KEY] ELSE <<>>]

\* Option<StorageConfig>; an absent region is the empty value
build_storage_config(s) ==
    IF ~get_nonempty(s, ENDPOINT) THEN NoStorageConfig
    ELSE IF ~get_nonempty(s, ACCESS_KEY) THEN NoStorageConfig
    ELSE IF ~get_nonempty(s, SECRET_KEY) THEN NoStorageConfig
    ELSE IF ~get_nonempty(s, BUCKET) THEN NoStorageConfig
    ELSE IF ~get_nonempty(s, ENCRYPTION_KEY) THEN NoStorageConfig
    ELSE [some |-> TRUE,
          endpoint |-> IF starts_with(s[ENDPOINT], "http://")
                          \/ starts_with(s[ENDPOINT], "https://")
                       THEN s[ENDPOINT] ELSE <<"https://">> \o s[ENDPOINT],
          access_key |-> s[ACCESS_KEY],
          secret_key |-> s[SECRET_KEY],
          bucket |-> s[BUCKET],
          region |-> IF get_nonempty(s, REGION) THEN s[REGION] ELSE <<>>,
          encryption_key |-> s[ENCRYPTION_KEY]]

\* the remote object names of load_remote_config
remote_object_names(s) ==
    [config_file_name |-> IF get_nonempty(s, CONFIG_FILE) THEN s[CONFIG_FILE]
                          ELSE <<"trustee.toml.enc">>,
     env_file_name |-> IF get_nonempty(s, ENV_FILE) THEN s[ENV_FILE]
                       ELSE <<".env.enc">>]

----------------------------------------------------------------------------
(* TOML documents and merge_config *)

\* A value is a leaf or a nested table; a table maps keys to values.
Leaf(x) == [kind |-> "leaf", val |-> x, tab |-> <<>>]
Tab(t) == [kind |-> "table", val |-> 0, tab |-> t]
EmptyTable == <<>>

\* A text: what Toml::string makes of it.
Text(t) == [ok |-> TRUE, tab |-> t]
InvalidText == [ok |-> FALSE, tab |-> EmptyTable]
\* String::default(), the empty text: an empty document
EmptyText == Text(EmptyTable)

\* Faulty variant: a key of the override replaces the default's value wholesale.
coalesce_shallow(a, b) ==
    [k \in DOMAIN a \cup DOMAIN b |-> IF k \in DOMAIN b THEN b[k] ELSE a[k]]

\* Figment::merge of two dictionaries: the later provider's value wins, and
\* two dictionaries under one key are merged key by key.
RECURSIVE coalesce(_, _)
coalesce(a, b) ==
    [k \in DOMAIN a \cup DOMAIN b |->
        IF k \notin DOMAIN b THEN a[k]
        ELSE IF k \notin DOMAIN a THEN b[k]
        ELSE IF a[k].kind = "table" /\ b[k].kind = "table"
        THEN Tab(coalesce(a[k].tab, b[k].tab))
        ELSE b[k]]

\* include_str!("../config/trustee_default.toml"): a representative document
DEFAULT_CONFIG ==
    Text([model |-> Leaf(1), agent |-> Tab([name |-> Leaf(1), mode |-> Leaf(1)])])

\* the body of merge_config, for a given embedded default:
\* Result<String, Error>, the merged table serialized
merge_with(default_config, user_config) ==
    IF ~default_config.ok \/ ~user_config.ok THEN [ok |-> FALSE, text |-> InvalidText]
    ELSE [ok |-> TRUE, text |-> Text(coalesce(default_config.tab, user_config.tab))]

\* Faulty variant: a user document that does not parse is ignored.
merge_config_lenient(user_config) ==
    IF user_config.ok THEN merge_with(DEFAULT_CONFIG, user_config)
    ELSE merge_with(DEFAULT_CONFIG, EmptyText)

merge_config(user_config) == merge_with(DEFAULT_CONFIG, user_config)

----------------------------------------------------------------------------
(* The inputs of a run *)

KV(k, v) == <<k, "=">> \o v

FileAbsent(none) == [exists |-> FALSE, readable |-> FALSE, content |-> none]
FileUnreadable(none) == [exists |-> TRUE, readable |-> FALSE, content |-> none]
File(c) == [exists |-> TRUE, readable |-> TRUE, content |-> c]

\* the GETMYCONFIG_* lines of a local .env
ConnFull ==
    << KV("GETMYCONFIG_ENDPOINT", <<"s3.example.com">>),
       KV("GETMYCONFIG_ACCESS_KEY", <<"ak">>),
       KV("GETMYCONFIG_SECRET_KEY", <<"sk">>),
       KV("GETMYCONFIG_BUCKET", <<"bucket">>),
       KV("GETMYCONFIG_ENCRYPTION_KEY", <<"ek">>) >>
ConnEmptyKey == [ConnFull EXCEPT ![5] = KV("GETMYCONFIG_ENCRYPTION_KEY", <<>>)]
ConnNamed ==
    ConnFull \o << KV("GETMYCONFIG_REGION", <<"eu">>),
                   KV("GETMYCONFIG_CONFIG_FILE", <<"custom.toml.enc">>) >>
ConnBlocks == {<<>>, ConnFull, ConnEmptyKey, ConnNamed}

LocalLines ==
    { <<"API_KEY", "=", DQ, "local", DQ>>,
      <<" ", "LOCAL_ONLY", " ", "=", " ", "x">>,
      KV("TRUSTEE_ENV_FILE", AltEnvName),
      KV("TRUSTEE_CONFIG_FILE", AltConfigName),
      KV("TRUSTEE_CONFIG_FILE", <<>>),
      <<"#", " ", "comment">> }

DefaultEnvContents ==
    {b \o x : b \in ConnBlocks, x \in SeqsUpTo(LocalLines, MaxLocalLines)}

AltEnvContents ==
    { ConnFull \o << KV("API_KEY", <<"alt">>) >>,
      << KV("LOCAL_ONLY", <<"y">>) >> }

RemoteLines ==
    { KV("API_KEY", <<"remote">>),
      KV("REMOTE_ONLY", <<SQ, "r", SQ>>),
      KV("GETMYCONFIG_ENDPOINT", <<"other.example.com">>) }

RemoteEnvContents == SeqsUpTo(RemoteLines, MaxRemoteLines)

LocalTexts == {Text([model |-> Leaf(2)]), InvalidText}
AltTexts == {Text([agent |-> Tab([mode |-> Leaf(2)])])}
RemoteTexts ==
    { Text([model |-> Leaf(3), agent |-> Tab([name |-> Leaf(3)])]),
      Text([model |-> Leaf(2)]),
      InvalidText }
ProjectTexts == {Text([agent |-> Tab([name |-> Leaf(4)])]), InvalidText}

EnvFileStates(contents) ==
    {FileAbsent(<<>>), FileUnreadable(<<>>)} \cup {File(c) : c \in contents}
ConfigFileStates(texts) ==
    {FileAbsent(InvalidText), FileUnreadable(InvalidText)} \cup {File(t) : t \in texts}

\* what ConfigReader::read_raw and String::from_utf8 make of one remote object
FetchError(none) == [fetched |-> FALSE, utf8 |-> FALSE, content |-> none]
NotUtf8(none) == [fetched |-> TRUE, utf8 |-> FALSE, content |-> none]
Fetched(c) == [fetched |-> TRUE, utf8 |-> TRUE, content |-> c]
ConfigFetches ==
    {FetchError(InvalidText), NotUtf8(InvalidText)} \cup {Fetched(t) : t \in RemoteTexts}
SecretsFetches ==
    {FetchError(<<>>), NotUtf8(<<>>)} \cup {Fetched(c) : c \in RemoteEnvContents}

NoRemote == [some |-> FALSE, config |-> InvalidText, secrets |-> EmptyMap]
NotHanded == [config |-> InvalidText, secrets |-> EmptyMap]
NoNames == [config_file_name |-> <<>>, env_file_name |-> <<>>]

----------------------------------------------------------------------------
(* main: the init command (main.rs:226-234) *)

\* Faulty variant: a project config that cannot be read is not replaced by "".
project_config_strict ==
    IF fs_project.exists /\ fs_project.readable THEN fs_project.content
    ELSE InvalidText

\* std::fs::read_to_string("config/trustee.toml").unwrap_or_default()
project_config ==
    IF fs_project.exists /\ fs_project.readable THEN fs_project.content
    ELSE EmptyText

InitCommand ==
    /\ pc = "start" /\ is_init
    /\ LET merged == merge_config(project_config)
       IN  /\ events' = events \cup {"read_project_config"}
           /\ IF merged.ok
              THEN /\ outcome' = "handoff"
                   /\ handed' = [config |-> merged.text, secrets |-> EmptyMap]
              ELSE /\ outcome' = "error"
                   /\ handed' = handed
    /\ pc' = "done"
    /\ UNCHANGED <<is_init, fs_env, fs_cfg, fs_project, config_path, secrets_path,
                   local_secrets, storage_config, reader, object_names, config_toml,
                   remote, user_config_toml, secrets>>
    /\ UNCHANGED <<env_vars, merge_vars>>

----------------------------------------------------------------------------
(* main: every other command (main.rs:236-279) *)

ResolvePaths ==
    /\ pc = "start" /\ ~is_init
    /\ LET paths == get_config_paths
       IN  /\ config_path' = paths.config_path
           /\ secrets_path' = paths.env_path
    /\ events' = events \cup {"exists_default_env"}
                        \cup (IF exists(DefaultEnvPath) THEN {"read_default_env"} ELSE {})
    /\ pc' = "check"
    /\ UNCHANGED <<is_init, fs_env, fs_cfg, fs_project, local_secrets, storage_config,
                   reader, object_names, config_toml, remote, user_config_toml,
                   secrets, outcome, handed>>
    /\ UNCHANGED <<env_vars, merge_vars>>

\* main.rs:240
no_local_files(cfg, env) == ~exists(cfg) /\ ~exists(env)

CheckLocalExists ==
    /\ pc = "check"
    /\ events' = events \cup {"exists_config"}
                        \cup (IF exists(config_path) THEN {} ELSE {"exists_secrets"})
    /\ IF no_local_files(config_path, secrets_path)
       THEN outcome' = "exit1" /\ pc' = "done"
       ELSE outcome' = outcome /\ pc' = "load_env"
    /\ UNCHANGED <<is_init, fs_env, fs_cfg, fs_project, config_path, secrets_path,
                   local_secrets, storage_config, reader, object_names, config_toml,
                   remote, user_config_toml, secrets, handed>>
    /\ UNCHANGED <<env_vars, merge_vars>>

LoadLocalSecrets ==
    /\ pc = "load_env"
    /\ events' = events \cup {"load_local_secrets"}
    /\ LET r == load_env_file(secrets_path)
       IN  IF r.ok
           THEN local_secrets' = r.secrets /\ outcome' = outcome /\ pc' = "remote"
           ELSE local_secrets' = local_secrets /\ outcome' = "error" /\ pc' = "done"
    /\ UNCHANGED <<is_init, fs_env, fs_cfg, fs_project, config_path, secrets_path,
                   storage_config, reader, object_names, config_toml, remote,
                   user_config_toml, secrets, handed>>
    /\ UNCHANGED <<env_vars, merge_vars>>

----------------------------------------------------------------------------
(* load_remote_config (main.rs:131-200) *)

BuildStorage ==
    /\ pc = "remote"
    /\ storage_config' = build_storage_config(local_secrets)
    /\ IF storage_config'.some
       THEN remote' = remote /\ pc' = "new_reader"
       ELSE remote' = NoRemote /\ pc' = "select"
    /\ UNCHANGED <<is_init, fs_env, fs_cfg, fs_project, config_path, secrets_path,
                   local_secrets, reader, object_names, config_toml, user_config_toml,
                   secrets, outcome, handed, events>>
    /\ UNCHANGED <<env_vars, merge_vars>>

NewReader ==
    /\ pc = "new_reader"
    /\ \E ok \in BOOLEAN :
          IF ok
          THEN /\ reader' = "ok"
               /\ object_names' = remote_object_names(local_secrets)
               /\ remote' = remote
               /\ pc' = "fetch_config"
          ELSE /\ reader' = "failed"
               /\ object_names' = object_names
               /\ remote' = NoRemote
               /\ pc' = "select"
    /\ events' = events \cup {"new_reader"}
    /\ UNCHANGED <<is_init, fs_env, fs_cfg, fs_project, config_path, secrets_path,
                   local_secrets, storage_config, config_toml, user_config_toml,
                   secrets, outcome, handed>>
    /\ UNCHANGED <<env_vars, merge_vars>>

FetchConfig ==
    /\ pc = "fetch_config"
    /\ \E r \in ConfigFetches :
          IF r.fetched /\ r.utf8
          THEN /\ config_toml' = r.content
               /\ remote' = remote
               /\ events' = events \cup {"fetch_config", "loaded_config"}
               /\ pc' = "fetch_secrets"
          ELSE /\ config_toml' = config_toml
               /\ remote' = NoRemote
               /\ events' = events \cup {"fetch_config"}
               /\ pc' = "select"
    /\ UNCHANGED <<is_init, fs_env, fs_cfg, fs_project, config_path, secrets_path,
                   local_secrets, storage_config, reader, object_names,
                   user_config_toml, secrets, outcome, handed>>
    /\ UNCHANGED <<env_vars, merge_vars>>

\* Faulty variant: a failed secrets object leaves the remote config in use.
secrets_fetch_result_partial(r, cfg) ==
    IF r.fetched /\ r.utf8
    THEN [some |-> TRUE, config |-> cfg,
          secrets |-> parse_env_content(r.content, EmptyMap)]
    ELSE [some |-> TRUE, config |-> cfg, secrets |-> EmptyMap]

\* main.rs:176-199: what load_remote_config returns once the config was loaded
secrets_fetch_result(r, cfg) ==
    IF r.fetched /\ r.utf8
    THEN [some |-> TRUE, config |-> cfg,
          secrets |-> parse_env_content(r.content, EmptyMap)]
    ELSE NoRemote

FetchSecrets ==
    /\ pc = "fetch_secrets"
    /\ \E r \in SecretsFetches :
          /\ remote' = secrets_fetch_result(r, config_toml)
          /\ events' = events \cup {"fetch_secrets"}
                \cup (IF r.fetched /\ r.utf8 THEN {"loaded_secrets"} ELSE {})
    /\ pc' = "select"
    /\ UNCHANGED <<is_init, fs_env, fs_cfg, fs_project, config_path, secrets_path,
                   local_secrets, storage_config, reader, object_names, config_toml,
                   user_config_toml, secrets, outcome, handed>>
    /\ UNCHANGED <<env_vars, merge_vars>>

----------------------------------------------------------------------------
(* main: the choice between remote and local (main.rs:251-273) *)

\* Faulty variant: a local value wins over the remote one.
overlay_local_wins(local, remote_secrets) ==
    [k \in DOMAIN local \cup DOMAIN remote_secrets |->
        IF k \in DOMAIN local THEN local[k] ELSE remote_secrets[k]]

\* main.rs:254-255: local_secrets.clone(), then extend(remote_secrets)
overlay(local, remote_secrets) ==
    [k \in DOMAIN local \cup DOMAIN remote_secrets |->
        IF k \in DOMAIN remote_secrets THEN remote_secrets[k] ELSE local[k]]

SelectRemote ==
    /\ pc = "select" /\ remote.some
    /\ user_config_toml' = remote.config
    /\ secrets' = overlay(local_secrets, remote.secrets)
    /\ pc' = "merge"
    /\ UNCHANGED <<is_init, fs_env, fs_cfg, fs_project, config_path, secrets_path,
                   local_secrets, storage_config, reader, object_names, config_toml,
                   remote, outcome, handed, events>>
    /\ UNCHANGED <<env_vars, merge_vars>>

\* std::fs::read_to_string on a config path: Ok(text) or Err
read_config(path) ==
    IF path \in DOMAIN fs_cfg /\ fs_cfg[path].exists /\ fs_cfg[path].readable
    THEN [ok |-> TRUE, text |-> fs_cfg[path].content]
    ELSE [ok |-> FALSE, text |-> InvalidText]

\* Faulty variant: a missing local config is read as an empty document.
fallback_local_lenient(path) ==
    IF ~exists(path) THEN [fatal |-> FALSE, ok |-> TRUE, text |-> EmptyText]
    ELSE [fatal |-> FALSE, ok |-> read_config(path).ok, text |-> read_config(path).text]

\* Faulty variant: the existence test is inverted.
fallback_local_inverted(path) ==
    IF exists(path) THEN [fatal |-> TRUE, ok |-> FALSE, text |-> InvalidText]
    ELSE [fatal |-> FALSE, ok |-> read_config(path).ok, text |-> read_config(path).text]

\* main.rs:260-268: exit(1), Err, or the local config text
fallback_local(path) ==
    IF ~exists(path) THEN [fatal |-> TRUE, ok |-> FALSE, text |-> InvalidText]
    ELSE [fatal |-> FALSE, ok |-> read_config(path).ok, text |-> read_config(path).text]

FallbackLocal ==
    /\ pc = "select" /\ ~remote.some
    /\ LET fb == fallback_local(config_path)
       IN  IF fb.fatal
           THEN /\ outcome' = "exit1" /\ pc' = "done"
                /\ events' = events \cup {"exists_config"}
                /\ UNCHANGED <<user_config_toml, secrets>>
           ELSE IF ~fb.ok
           THEN /\ outcome' = "error" /\ pc' = "done"
                /\ events' = events \cup {"exists_config", "read_local_config"}
                /\ UNCHANGED <<user_config_toml, secrets>>
           ELSE /\ outcome' = outcome /\ pc' = "merge"
                /\ events' = events \cup {"exists_config", "read_local_config",
                                          "local_fallback"}
                /\ user_config_toml' = fb.text
                /\ secrets' = local_secrets
    /\ UNCHANGED <<is_init, fs_env, fs_cfg, fs_project, config_path, secrets_path,
                   local_secrets, storage_config, reader, object_names, config_toml,
                   remote, handed>>
    /\ UNCHANGED <<env_vars, merge_vars>>

\* main.rs:275-279
MergeAndRun ==
    /\ pc = "merge"
    /\ LET merged == merge_config(user_config_toml)
       IN  IF merged.ok
           THEN /\ outcome' = "handoff"
                /\ handed' = [config |-> merged.text, secrets |-> secrets]
           ELSE /\ outcome' = "error"
                /\ handed' = handed
    /\ pc' = "done"
    /\ UNCHANGED <<is_init, fs_env, fs_cfg, fs_project, config_path, secrets_path,
                   local_secrets, storage_config, reader, object_names, config_toml,
                   remote, user_config_toml, secrets, events>>
    /\ UNCHANGED <<env_vars, merge_vars>>

----------------------------------------------------------------------------
(* parse_env_content on one line, and figment's merge on two documents *)

EnvParse ==
    /\ env_pc = "input"
    /\ env_map' = parse_env_content(<<env_line>>, EmptyMap)
    /\ env_pc' = "parsed"
    /\ UNCHANGED <<env_line, orch_vars, merge_vars>>

MergeApply ==
    /\ merge_pc = "input"
    /\ merge_out' = merge_with(Text(merge_base), merge_over)
    /\ merge_pc' = "merged"
    /\ UNCHANGED <<merge_base, merge_over, orch_vars, env_vars>>

----------------------------------------------------------------------------
(* Initial states *)

EnvIdle == env_pc = "idle" /\ env_line = <<>> /\ env_map = EmptyMap
MergeIdle ==
    /\ merge_pc = "idle" /\ merge_base = EmptyTable /\ merge_over = EmptyText
    /\ merge_out = [ok |-> FALSE, text |-> InvalidText]

\* the locals of main and load_remote_config before they are assigned
RemoteUnset ==
    /\ config_path = <<>> /\ secrets_path = <<>>
    /\ storage_config = NoStorageConfig
    /\ reader = "none"
    /\ object_names = NoNames
    /\ config_toml = InvalidText
    /\ remote = NoRemote
    /\ user_config_toml = InvalidText
    /\ secrets = EmptyMap
    /\ outcome = "running"
    /\ handed = NotHanded
    /\ events = {}

LocalsUnset == local_secrets = EmptyMap /\ RemoteUnset

NoFiles ==
    /\ fs_env = (DefaultEnvPath :> FileAbsent(<<>>)) @@ (AltEnvPath :> FileAbsent(<<>>))
    /\ fs_cfg = (DefaultConfigPath :> FileAbsent(InvalidText))
                @@ (AltConfigPath :> FileAbsent(InvalidText))
                @@ (ConfigDirPath :> FileAbsent(InvalidText))
    /\ fs_project = FileAbsent(InvalidText)

OrchIdle == is_init = FALSE /\ pc = "idle" /\ NoFiles /\ LocalsUnset

\* A process start: the arguments and the files it finds.
Init ==
    /\ is_init \in BOOLEAN
    /\ \E d \in EnvFileStates(DefaultEnvContents), a \in EnvFileStates(AltEnvContents) :
          fs_env = (DefaultEnvPath :> d) @@ (AltEnvPath :> a)
    /\ \E d \in ConfigFileStates(LocalTexts), a \in ConfigFileStates(AltTexts),
          dir \in BOOLEAN :
          fs_cfg = (DefaultConfigPath :> d) @@ (AltConfigPath :> a)
                   @@ (ConfigDirPath :> IF dir \/ d.exists \/ a.exists
                                        THEN FileUnreadable(InvalidText)
                                        ELSE FileAbsent(InvalidText))
    /\ fs_project \in (IF is_init THEN ConfigFileStates(ProjectTexts)
                       ELSE {FileAbsent(InvalidText)})
    /\ pc = "start"
    /\ LocalsUnset
    /\ EnvIdle /\ MergeIdle

Next ==
    \/ InitCommand
    \/ ResolvePaths
    \/ CheckLocalExists
    \/ LoadLocalSecrets
    \/ BuildStorage
    \/ NewReader
    \/ FetchConfig
    \/ FetchSecrets
    \/ SelectRemote
    \/ FallbackLocal
    \/ MergeAndRun

Spec == Init /\ [][Next]_vars

\* load_remote_config on every combination of the connection keys
StorageKeys == {ENDPOINT, ACCESS_KEY, SECRET_KEY, BUCKET, ENCRYPTION_KEY, REGION}
StorageValues == {<<>>, <<"v">>, <<"https://", "v">>}

InitStorage ==
    /\ is_init = FALSE /\ NoFiles /\ RemoteUnset
    /\ \E present \in SUBSET StorageKeys, value \in [StorageKeys -> StorageValues] :
          local_secrets = [k \in present |-> value[k]]
    /\ pc = "remote"
    /\ EnvIdle /\ MergeIdle

NextStorage == BuildStorage \/ NewReader \/ FetchConfig \/ FetchSecrets

SpecStorage == InitStorage /\ [][NextStorage]_vars

\* parse_env_content on every short line
EnvChars == {" ", "=", DQ, SQ, "#", "a"}

InitEnv ==
    /\ env_pc = "input"
    /\ env_line \in SeqsUpTo(EnvChars, MaxLineLen)
    /\ env_map = EmptyMap
    /\ OrchIdle /\ MergeIdle

SpecEnv == InitEnv /\ [][EnvParse]_vars

\* merge_config's merge on every pair of small documents
MergeKeys == {"a", "b"}
LeafValues == {Leaf(i) : i \in 1..MaxLeaf}
TablesOver(values) == UNION {[ks -> values] : ks \in SUBSET MergeKeys}
FlatTables == TablesOver(LeafValues)
NestedTables == TablesOver(LeafValues \cup {Tab(t) : t \in FlatTables})

InitMerge ==
    /\ merge_pc = "input"
    /\ merge_base \in NestedTables
    /\ merge_over \in {Text(t) : t \in NestedTables} \cup {InvalidText}
    /\ merge_out = [ok |-> FALSE, text |-> InvalidText]
    /\ OrchIdle /\ EnvIdle

SpecMerge == InitMerge /\ [][MergeApply]_vars

----------------------------------------------------------------------------
(* Properties *)

Standard == ~is_init
RemoteEvents == {"new_reader", "fetch_config", "fetch_secrets"}
\* both remote objects were fetched and decoded
RemoteFetched == {"loaded_config", "loaded_secrets"} \subseteq events
\* the run loaded the local secrets, asked for the remote pair and got none
RemoteAbsentAtEnd ==
    /\ Standard /\ pc = "done"
    /\ "load_local_secrets" \in events
    /\ load_env_file(secrets_path).ok
    /\ ~RemoteFetched
\* the local config file exists, can be read and parses
LocalConfigUsable ==
    /\ exists(config_path)
    /\ read_config(config_path).ok
    /\ read_config(config_path).text.ok
API_KEY == <<"API_KEY">>

\* C1: in standard mode, once both remote objects were fetched and decoded,
\* the runtime receives merge(embedded default, remote config text) without
\* the local config file being read, and a secret map whose keys are the
\* local and the remote keys, with the remote value for every remote key and
\* the local value for every key that is local only.
C1_RemotePrecedence ==
    (Standard /\ pc = "done" /\ RemoteFetched) =>
        /\ remote.some /\ remote.config = config_toml
        /\ "read_local_config" \notin events
        /\ config_toml.ok =>
              /\ outcome = "handoff"
              /\ handed.config = merge_with(DEFAULT_CONFIG, config_toml).text
              /\ DOMAIN handed.secrets = DOMAIN local_secrets \cup DOMAIN remote.secrets
              /\ \A k \in DOMAIN remote.secrets : handed.secrets[k] = remote.secrets[k]
              /\ \A k \in DOMAIN local_secrets \ DOMAIN remote.secrets :
                    handed.secrets[k] = local_secrets[k]

C1_Witness ==
    /\ Standard /\ pc = "done" /\ RemoteFetched /\ outcome = "handoff"
    /\ API_KEY \in DOMAIN local_secrets /\ API_KEY \in DOMAIN remote.secrets
    /\ local_secrets[API_KEY] # remote.secrets[API_KEY]
    /\ handed.secrets[API_KEY] = <<"remote">>
    /\ ENDPOINT \in DOMAIN handed.secrets /\ ENDPOINT \notin DOMAIN remote.secrets

\* C2: in standard mode, when the remote pair is absent and the local config
\* file exists, can be read and parses, the run ends with the runtime invoked
\* (no exit(1), no error) on merge(embedded default, local config text) and
\* on exactly the local secrets.
C2_LocalFallback ==
    (RemoteAbsentAtEnd /\ LocalConfigUsable) =>
        /\ outcome = "handoff"
        /\ handed.config
              = merge_with(DEFAULT_CONFIG, read_config(config_path).text).text
        /\ local_secrets = load_env_file(secrets_path).secrets
        /\ handed.secrets = local_secrets

C2_Witness ==
    /\ RemoteAbsentAtEnd /\ LocalConfigUsable /\ outcome = "handoff"
    /\ "loaded_config" \in events /\ "fetch_secrets" \in events
    /\ ENDPOINT \in DOMAIN handed.secrets
    /\ API_KEY \in DOMAIN handed.secrets

\* C3: the remote pair is used only if both the config object and the secrets
\* object were fetched and decoded; otherwise the remote outcome is absent and
\* what reaches the runtime is the local config text and the local secrets.
C3_AllOrNothing ==
    /\ remote.some => RemoteFetched
    /\ (Standard /\ pc = "merge" /\ ~RemoteFetched) =>
          /\ "local_fallback" \in events
          /\ user_config_toml = read_config(config_path).text
          /\ secrets = local_secrets
    /\ (Standard /\ outcome = "handoff" /\ ~RemoteFetched) =>
          /\ "local_fallback" \in events
          /\ handed.config
                = merge_with(DEFAULT_CONFIG, read_config(config_path).text).text
          /\ handed.secrets = local_secrets

C3_Witness ==
    /\ Standard /\ outcome = "handoff"
    /\ "loaded_config" \in events /\ "fetch_secrets" \in events
    /\ "loaded_secrets" \notin events
    /\ config_toml.ok /\ config_toml # read_config(config_path).text

\* C4: in standard mode, (a) when neither resolved path exists the process
\* exits non-zero before the secrets are loaded or the remote is contacted;
\* (b) when the remote pair is absent and the config path does not exist the
\* process exits non-zero; after exit(1) the runtime was never invoked.
C4_FatalPaths ==
    /\ (Standard /\ pc \notin {"start", "check"}
        /\ ~exists(config_path) /\ ~exists(secrets_path)) =>
          /\ pc = "done" /\ outcome = "exit1"
          /\ "load_local_secrets" \notin events
          /\ events \cap RemoteEvents = {}
    /\ (RemoteAbsentAtEnd /\ ~exists(config_path)) => outcome = "exit1"
    /\ outcome = "exit1" => pc = "done" /\ handed = NotHanded

C4_Witness ==
    /\ RemoteAbsentAtEnd /\ ~exists(config_path) /\ outcome = "exit1"
    /\ "fetch_config" \in events

RequiredKeys == {ENDPOINT, ACCESS_KEY, SECRET_KEY, BUCKET, ENCRYPTION_KEY}

\* C5: build_storage_config returns none exactly when one of the five required
\* keys is missing or empty, whatever GETMYCONFIG_REGION is, and then no
\* client is constructed and no remote object is read.
C5_ConnectionParams ==
    pc # "remote" =>
        /\ ~storage_config.some
              <=> \E k \in RequiredKeys :
                     k \notin DOMAIN local_secrets \/ local_secrets[k] = <<>>
        /\ \A region \in StorageValues :
              /\ build_storage_config(insert(local_secrets, REGION, region)).some
                    = storage_config.some
              /\ build_storage_config(
                    [k \in DOMAIN local_secrets \ {REGION} |-> local_secrets[k]]).some
                    = storage_config.some
        /\ ~storage_config.some =>
              /\ pc = "select" /\ ~remote.some
              /\ reader = "none" /\ events = {}

C5_Witness ==
    /\ pc = "select" /\ ~storage_config.some /\ reader = "none"
    /\ Cardinality({k \in RequiredKeys : get_nonempty(local_secrets, k)}) = 4
    /\ get_nonempty(local_secrets, REGION)

StripOneLayer(v) ==
    IF Len(v) >= 2 /\ v[1] = v[Len(v)] /\ v[1] \in {DQ, SQ}
    THEN SubSeq(v, 2, Len(v) - 1) ELSE v

\* C6: a non-ignored line with '=' yields the key trimmed(left of the first
\* '=') and the value trimmed(right of it) less exactly one layer of matching
\* surrounding quotes, and no more.
C6_OneQuoteLayer ==
    env_pc = "parsed" =>
        LET line == trim(env_line)
            kv == split_once(line)
        IN  (line # <<>> /\ ~starts_with(line, "#") /\ kv.some) =>
                env_map = (trim(kv.key) :> StripOneLayer(trim(kv.value)))

\* C7: the file names are the non-empty values of TRUSTEE_CONFIG_FILE and
\* TRUSTEE_ENV_FILE in the default .env, and the defaults in every other
\* case; the paths are <home>/config/<config name> and <home>/<secrets name>.
C7_FileNameOverrides ==
    (Standard /\ pc # "start") =>
        LET rd == read_env(DefaultEnvPath)
            m == IF rd.ok THEN parse_env_content(rd.content, EmptyMap) ELSE EmptyMap
            config_name == IF get_nonempty(m, <<"TRUSTEE_CONFIG_FILE">>)
                           THEN m[<<"TRUSTEE_CONFIG_FILE">>] ELSE DefaultConfigName
            env_name == IF get_nonempty(m, <<"TRUSTEE_ENV_FILE">>)
                        THEN m[<<"TRUSTEE_ENV_FILE">>] ELSE DefaultEnvName
        IN  /\ config_path = join(ConfigDir, config_name)
            /\ secrets_path = join(share_dir, env_name)

Missing == [kind |-> "missing", val |-> 0, tab |-> <<>>]
KeyPaths == {<<k>> : k \in MergeKeys} \cup (MergeKeys \X MergeKeys)
Get(t, p) ==
    IF p[1] \notin DOMAIN t THEN Missing
    ELSE IF Len(p) = 1 THEN t[p[1]]
    ELSE IF t[p[1]].kind = "table" /\ p[2] \in DOMAIN t[p[1]].tab
    THEN t[p[1]].tab[p[2]]
    ELSE Missing
\* the override puts no leaf above path p
NotShadowed(o, p) == Len(p) = 1 \/ Get(o, <<p[1]>>).kind # "leaf"

\* C8: the merge is a recursive deep merge: a leaf of the override wins, a key
\* only the default has keeps its value, two tables under one key are merged
\* key by key; merge(D, D) = D, and merge(D, O) = D u O for disjoint keys.
C8_DeepMerge ==
    (merge_pc = "merged" /\ merge_over.ok) =>
        LET d == merge_base
            o == merge_over.tab
            r == merge_out.text.tab
        IN  /\ merge_out.ok /\ merge_out.text.ok
            /\ \A p \in KeyPaths :
                  /\ Get(o, p).kind = "leaf" => Get(r, p) = Get(o, p)
                  /\ (Get(o, p).kind = "missing" /\ NotShadowed(o, p))
                        => Get(r, p) = Get(d, p)
                  /\ (Get(o, p).kind = "table" /\ Get(d, p).kind = "table") =>
                        /\ Get(r, p).kind = "table"
                        /\ DOMAIN Get(r, p).tab
                              = DOMAIN Get(d, p).tab \cup DOMAIN Get(o, p).tab
                  /\ (Get(o, p).kind = "table" /\ Get(d, p).kind # "table")
                        => Get(r, p) = Get(o, p)
            /\ d = o => r = d
            /\ DOMAIN d \cap DOMAIN o = {} =>
                  r = [k \in DOMAIN d \cup DOMAIN o |->
                          IF k \in DOMAIN d THEN d[k] ELSE o[k]]

C8_Witness ==
    /\ merge_pc = "merged" /\ merge_over.ok /\ merge_out.ok
    /\ Get(merge_base, <<"a", "b">>).kind = "leaf"
    /\ Get(merge_over.tab, <<"a", "b">>).kind = "missing"
    /\ Get(merge_over.tab, <<"a", "a">>).kind = "leaf"
    /\ Get(merge_base, <<"a", "a">>).kind = "leaf"
    /\ Get(merge_base, <<"a", "a">>) # Get(merge_over.tab, <<"a", "a">>)
    /\ Get(merge_out.text.tab, <<"a", "b">>) = Get(merge_base, <<"a", "b">>)
    /\ Get(merge_out.text.tab, <<"a", "a">>) = Get(merge_over.tab, <<"a", "a">>)

\* C9: the init command hands the runtime merge(embedded default, the
\* project config/trustee.toml, or "" when it cannot be read) and an empty
\* secret map; it reads no per-user file and no remote object, and never
\* takes a configuration-not-found exit.
C9_InitMode ==
    (is_init /\ pc = "done") =>
        LET text == IF fs_project.exists /\ fs_project.readable
                    THEN fs_project.content ELSE EmptyText
        IN  /\ outcome # "exit1"
            /\ events = {"read_project_config"}
            /\ local_secrets = EmptyMap /\ ~remote.some
            /\ config_path = <<>> /\ secrets_path = <<>>
            /\ IF text.ok
               THEN /\ outcome = "handoff"
                    /\ handed = [config |-> merge_with(DEFAULT_CONFIG, text).text,
                                 secrets |-> EmptyMap]
               ELSE outcome = "error" /\ handed = NotHanded

C9_Witness ==
    /\ is_init /\ pc = "done" /\ outcome = "handoff"
    /\ ~fs_project.readable
    /\ handed.config = DEFAULT_CONFIG
    /\ exists(DefaultConfigPath) /\ exists(DefaultEnvPath)
    /\ read_env(DefaultEnvPath).ok /\ read_env(DefaultEnvPath).content # <<>>

\* C10: in standard mode, when the chosen user config text (remote after a
\* successful fetch, local on fallback) does not merge, or when the read of an
\* existing local secrets or config file fails, the run ends with an error:
\* the runtime is not invoked, exit(1) is not taken, and no other source is
\* tried (after a remote config that does not parse, the local config is not
\* read).
C10_PropagatedFailures ==
    (Standard /\ pc = "done") =>
        /\ ((RemoteFetched \/ "local_fallback" \in events) /\ ~user_config_toml.ok) =>
              /\ outcome = "error" /\ handed = NotHanded
              /\ RemoteFetched => "read_local_config" \notin events
        /\ ("load_local_secrets" \in events /\ exists(secrets_path)
            /\ ~read_env(secrets_path).ok) =>
              /\ outcome = "error" /\ handed = NotHanded
              /\ events \cap (RemoteEvents \cup {"read_local_config"}) = {}
        /\ ("read_local_config" \in events /\ exists(config_path)
            /\ ~read_config(config_path).ok) =>
              /\ outcome = "error" /\ handed = NotHanded
        /\ outcome = "error" => handed = NotHanded

C10_Witness ==
    /\ Standard /\ pc = "done" /\ outcome = "error"
    /\ RemoteFetched /\ ~user_config_toml.ok
    /\ LocalConfigUsable
    /\ "read_local_config" \notin events

=============================================================================
